---- MODULE Spec2Model ----
(***************************************************************************)
(* RuFetch: configuration resolution (Config::new) and report rendering    *)
(* (Config::print) as driven by main.                                      *)
(*                                                                         *)
(* The environment of one run (configuration directory, configuration     *)
(* file, facts the system provider returns, build target, output of the   *)
(* user lookup command) is chosen in Init and never changes.  The program  *)
(* state is the position in main, the snapshot, the resolved Config, the   *)
(* lines written to standard output and the panic, if any.                 *)
(***************************************************************************)
EXTENDS Integers, Sequences, FiniteSets

\* ------------------------------------------------------------- bounds
MaxHeight == 2
MaxWidth == 2
MaxDisks == 1
MaxComponents == 1

\* ------------------------------------------------------------- text
\* Text is a sequence of one-character strings where its characters matter
\* (formatted numbers, padded blocks) and a sequence of words elsewhere.
DigitChars == <<"0", "1", "2", "3", "4", "5", "6", "7", "8", "9">>

Digit(d) == DigitChars[d + 1]

RECURSIVE ToDigits(_)
\* Display of a non-negative integer.
ToDigits(n) == IF n < 10 THEN <<Digit(n)>> ELSE ToDigits(n \div 10) \o <<Digit(n % 10)>>

Spaces(n) == [i \in 1..n |-> " "]

\* "{:width$}" applied to a number: right-aligned, padded with spaces to the
\* width, never truncated.
PadNumber(n, width) ==
    LET d == ToDigits(n)
    IN  IF Len(d) >= width THEN d ELSE Spaces(width - Len(d)) \o d

\* "{:.2}" applied to an unsigned integer: the precision is ignored for
\* integral types, the number is displayed as is.
FormatInt2(n) == ToDigits(n)

\* "{:.2}" applied to the f64 num/den: the quotient rounded to hundredths,
\* always with two fractional digits.  Defined for quotients that are not
\* exactly halfway between two hundredths (there the result depends on the
\* binary representation of the quotient).
FormatF2(num, den) ==
    LET q0 == (num * 100) \div den
        r  == (num * 100) % den
        q  == IF 2 * r > den \/ (2 * r = den /\ q0 % 2 = 1) THEN q0 + 1 ELSE q0
    IN  ToDigits(q \div 100) \o <<".">> \o <<Digit((q % 100) \div 10), Digit(q % 10)>>

\* Option<T> as a sequence of length at most one.
None == <<>>
Some(x) == <<x>>
IsSome(o) == Len(o) = 1
Get(o) == o[1]

\* ------------------------------------------------------------- styles
Plain == [fg |-> "none", bg |-> "none", bold |-> FALSE]
Bold(c) == [fg |-> c, bg |-> "none", bold |-> TRUE]
On(c, b) == [fg |-> c, bg |-> b, bold |-> FALSE]

Span(style, text) == [fg |-> style.fg, bg |-> style.bg, bold |-> style.bold, text |-> text]
Line(sec, kind, spans) == [sec |-> sec, kind |-> kind, spans |-> spans]

\* ------------------------------------------------------------- documents
BoolFields == {"show_os", "show_hostname", "show_uptime", "show_kernel_version",
               "show_memory", "show_swap", "show_de", "show_colors", "show_cpu",
               "show_cores", "show_disks", "show_temperature"}
IntFields == {"colors_height", "colors_width"}
EnumFields == {"uptime_type", "memory_type"}
Fields == BoolFields \cup IntFields \cup EnumFields

Time == {"Second", "Minute", "Hour"}
MemType == {"KB", "MB", "GB"}

\* A value of a document: a boolean, an integer, a string, or no entry.
TBool(b) == [t |-> "bool", b |-> b, n |-> 0, s |-> ""]
TInt(n) == [t |-> "int", b |-> FALSE, n |-> n, s |-> ""]
TStr(s) == [t |-> "str", b |-> FALSE, n |-> 0, s |-> s]
Absent == [t |-> "absent", b |-> FALSE, n |-> 0, s |-> ""]

\* The default document with the temperature section switched on as well.
default_config_all_on ==
    [wellFormed |-> TRUE,
     entries |-> [f \in Fields |->
        CASE f = "show_os" -> TBool(TRUE)
          [] f = "show_hostname" -> TBool(TRUE)
          [] f = "show_uptime" -> TBool(TRUE)
          [] f = "show_kernel_version" -> TBool(TRUE)
          [] f = "show_memory" -> TBool(TRUE)
          [] f = "show_swap" -> TBool(TRUE)
          [] f = "show_de" -> TBool(TRUE)
          [] f = "show_colors" -> TBool(TRUE)
          [] f = "show_cpu" -> TBool(TRUE)
          [] f = "show_cores" -> TBool(TRUE)
          [] f = "show_disks" -> TBool(TRUE)
          [] f = "show_temperature" -> TBool(TRUE)
          [] f = "colors_height" -> TInt(3)
          [] f = "colors_width" -> TInt(3)
          [] f = "uptime_type" -> TStr("Minute")
          [] f = "memory_type" -> TStr("GB")]]

default_config ==
    [wellFormed |-> TRUE,
     entries |-> [f \in Fields |->
        CASE f = "show_os" -> TBool(TRUE)
          [] f = "show_hostname" -> TBool(TRUE)
          [] f = "show_uptime" -> TBool(TRUE)
          [] f = "show_kernel_version" -> TBool(TRUE)
          [] f = "show_memory" -> TBool(TRUE)
          [] f = "show_swap" -> TBool(TRUE)
          [] f = "show_de" -> TBool(TRUE)
          [] f = "show_colors" -> TBool(TRUE)
          [] f = "show_cpu" -> TBool(TRUE)
          [] f = "show_cores" -> TBool(TRUE)
          [] f = "show_disks" -> TBool(TRUE)
          [] f = "show_temperature" -> TBool(FALSE)
          [] f = "colors_height" -> TInt(3)
          [] f = "colors_width" -> TInt(3)
          [] f = "uptime_type" -> TStr("Minute")
          [] f = "memory_type" -> TStr("GB")]]

\* The fields a document must set: all of them (no field has a default).
RequiredFields == Fields

\* Whether an entry has the type its field is used with: the show_* flags as
\* bool, colors_width as usize (a format width), colors_height as the bound
\* of a range, uptime_type and memory_type as the variants matched on.
EntryOk(f, e) ==
    CASE f \in BoolFields -> e.t = "bool"
      [] f \in IntFields -> e.t = "int" /\ e.n >= 0
      [] f = "uptime_type" -> e.t = "str" /\ e.s \in Time
      [] f = "memory_type" -> e.t = "str" /\ e.s \in MemType

Entry(doc, f) == doc.entries[f]

\* The Rust value an entry deserializes to.
BoolOf(e) == e.b
IntOf(e) == e.n
EnumOf(e) == e.s

\* toml::from_str::<Config>: all or nothing.
FromStr(doc) ==
    IF ~doc.wellFormed
    THEN [ok |-> FALSE, err |-> "syntax error"]
    ELSE IF \E f \in RequiredFields : doc.entries[f].t = "absent"
    THEN [ok |-> FALSE, err |-> "missing field"]
    ELSE IF \E f \in Fields : doc.entries[f].t # "absent" /\ ~EntryOk(f, doc.entries[f])
    THEN [ok |-> FALSE, err |-> "invalid type"]
    ELSE [ok |-> TRUE,
          val |-> [show_os |-> BoolOf(Entry(doc, "show_os")),
                   show_hostname |-> BoolOf(Entry(doc, "show_hostname")),
                   show_uptime |-> BoolOf(Entry(doc, "show_uptime")),
                   show_kernel_version |-> BoolOf(Entry(doc, "show_kernel_version")),
                   show_memory |-> BoolOf(Entry(doc, "show_memory")),
                   show_swap |-> BoolOf(Entry(doc, "show_swap")),
                   show_de |-> BoolOf(Entry(doc, "show_de")),
                   show_colors |-> BoolOf(Entry(doc, "show_colors")),
                   show_cpu |-> BoolOf(Entry(doc, "show_cpu")),
                   show_cores |-> BoolOf(Entry(doc, "show_cores")),
                   show_disks |-> BoolOf(Entry(doc, "show_disks")),
                   show_temperature |-> BoolOf(Entry(doc, "show_temperature")),
                   colors_height |-> IntOf(Entry(doc, "colors_height")),
                   colors_width |-> IntOf(Entry(doc, "colors_width")),
                   uptime_type |-> EnumOf(Entry(doc, "uptime_type")),
                   memory_type |-> EnumOf(Entry(doc, "memory_type"))]]

\* toml::from_str::<()>: the type the match on read_to_string forces on its
\* arms.  A document is a table, never a unit, so this never succeeds.
FromStrUnit(doc) ==
    [ok |-> FALSE, err |-> IF doc.wellFormed THEN "invalid type: map, expected unit"
                           ELSE "syntax error"]

\* ------------------------------------------------------------- Config::new
NOTICE == <<"Error in config, falling back to default config.">>
CAVEAT == <<"(line, column may differ from actual)">>

\* The two lines in the other order.
ParseFailureOutputErrorFirst(err) ==
    << Line("config", "parse_error",
            <<Span(Bold("red"), <<err>>), Span(Plain, <<" ">>), Span(Bold("blue"), CAVEAT)>>),
       Line("config", "fallback_notice", <<Span(Bold("red"), NOTICE)>>) >>

\* What the Err arm of the parse prints.
ParseFailureOutput(err) ==
    << Line("config", "fallback_notice", <<Span(Bold("red"), NOTICE)>>),
       Line("config", "parse_error",
            <<Span(Bold("red"), <<err>>), Span(Plain, <<" ">>), Span(Bold("blue"), CAVEAT)>>) >>

\* toml::from_str(default_config).unwrap(), after `printed` was written.
DefaultOutcome(printed) ==
    LET r == FromStr(default_config)
    IN  IF r.ok
        THEN [panic |-> "none", config |-> Some(r.val), printed |-> printed]
        ELSE [panic |-> "default_config", config |-> None, printed |-> printed]

\* A lenient parse: fields the document leaves out are taken from the
\* default document, and nothing is printed.
ParseOutcomeMerging(doc) ==
    LET merged == [doc EXCEPT !.entries = [f \in Fields |->
                        IF doc.entries[f].t = "absent" THEN default_config.entries[f]
                        ELSE doc.entries[f]]]
        r == FromStr(merged)
    IN  IF r.ok
        THEN [panic |-> "none", config |-> Some(r.val), printed |-> <<>>]
        ELSE DefaultOutcome(ParseFailureOutput(r.err))

\* The match on toml::from_str(&contents).
ParseOutcome(doc) ==
    LET r == FromStr(doc)
    IN  IF r.ok
        THEN [panic |-> "none", config |-> Some(r.val), printed |-> <<>>]
        ELSE DefaultOutcome(ParseFailureOutput(r.err))

\* The contents String::new() holds when nothing was read into it.
EmptyDoc == [wellFormed |-> TRUE, entries |-> [f \in Fields |-> Absent]]

\* Config::new as a function of the environment: the panic it ends with
\* ("none" when it returns), the Config it returns, the lines it prints.
ConfigNewOutcome(dir_ok, f) ==
    IF ~dir_ok
    THEN [panic |-> "config_dir", config |-> None, printed |-> <<>>]
    ELSE CASE f.state = "absent" -> DefaultOutcome(<<>>)
           [] f.state = "unopenable" -> DefaultOutcome(<<>>)
           [] f.state = "unreadable" ->
                \* the Err arm of read_to_string unwraps from_str::<()>
                IF FromStrUnit(default_config).ok
                THEN ParseOutcome(EmptyDoc)
                ELSE [panic |-> "read_to_string", config |-> None, printed |-> <<>>]
           [] f.state = "readable" -> ParseOutcome(f.doc)

\* ------------------------------------------------------------- Config::print
\* get_user: the standard output of the user lookup command (whoami, or
\* "id -un" on other targets) with one trailing newline removed.
get_user(stdout) ==
    IF Len(stdout) > 0 /\ stdout[Len(stdout)] = "\n"
    THEN SubSeq(stdout, 1, Len(stdout) - 1)
    ELSE stdout

print_hostname(host_name) ==
    IF IsSome(host_name)
    THEN <<Line("identity", "host",
                <<Span(Bold("blue"), <<"Host:">>), Span(Plain, <<" ", Get(host_name)>>)>>)>>
    ELSE <<>>

\* The block of print guarded by show_hostname.
IdentitySection(s, user) ==
    (IF IsSome(s.host_name)
     THEN <<Line("identity", "header",
                 <<Span(Bold("blue"), user), Span(Plain, <<"@">>),
                   Span(Bold("blue"), <<Get(s.host_name)>>)>>)>>
     ELSE <<>>)
    \o <<Line("identity", "rule", <<Span(Plain, [i \in 1..30 |-> "-"])>>)>>
    \o print_hostname(s.host_name)

print_os(s) ==
    IF IsSome(s.long_os_version)
    THEN <<Line("os", "os",
                <<Span(Bold("blue"), <<"OS:">>), Span(Plain, <<" ", Get(s.long_os_version)>>)>>)>>
    ELSE <<>>

print_desktop_environment(b) ==
    IF b.target_os = "linux" /\ IsSome(b.desktop_session)
    THEN <<Line("de", "de",
                <<Span(Bold("blue"), <<"DE:">>), Span(Plain, <<" ", Get(b.desktop_session)>>)>>)>>
    ELSE <<>>

\* The number print_uptime displays.
UptimeValue(uptime_type, uptime) ==
    CASE uptime_type = "Second" -> FormatInt2(uptime)
      [] uptime_type = "Minute" -> FormatF2(uptime, 60)
      [] uptime_type = "Hour" -> FormatF2(uptime, 3600)

UptimeUnit(uptime_type) ==
    CASE uptime_type = "Second" -> "sec(s)"
      [] uptime_type = "Minute" -> "min(s)"
      [] uptime_type = "Hour" -> "hour(s)"

print_uptime(cfg, s) ==
    <<Line("uptime", cfg.uptime_type,
           <<Span(Bold("blue"), <<IF cfg.uptime_type = "Minute" THEN "Uptime:" ELSE "Uptime: ">>),
             Span(Plain, <<" ">>),
             Span(Plain, UptimeValue(cfg.uptime_type, s.uptime)),
             Span(Plain, <<" ", UptimeUnit(cfg.uptime_type)>>)>>)>>

print_kernel_ver(s) ==
    IF IsSome(s.kernel_version)
    THEN <<Line("kernel", "kernel",
                <<Span(Bold("blue"), <<"Kernel Version:">>),
                  Span(Plain, <<" ", Get(s.kernel_version)>>)>>)>>
    ELSE <<>>

print_disks(s) ==
    [i \in 1..Len(s.disks) |->
        Line("disks", "disk",
             <<Span(Bold("blue"), <<"Disk">>), Span(Plain, <<": ">>),
               Span(Bold("yellow"), <<s.disks[i].name>>), Span(Plain, <<" (">>),
               Span(Plain, FormatF2(s.disks[i].total_space - s.disks[i].available_space,
                                    1024 * 1024 * 1024)),
               Span(Plain, <<" GB / ">>),
               Span(Plain, FormatF2(s.disks[i].total_space, 1024 * 1024 * 1024)),
               Span(Plain, <<" GB)">>)>>)]

print_cpu(cfg, s) ==
    <<Line("cpu", "cpu",
           <<Span(Bold("blue"), <<"CPU:">>), Span(Plain, <<" ", s.cpu_brand>>)>>
           \o (IF cfg.show_cores
               THEN <<Span(Plain, <<" (">>), Span(Plain, ToDigits(s.cpus)), Span(Plain, <<")">>)>>
               ELSE <<>>))>>

MemDivisor(memory_type) ==
    CASE memory_type = "KB" -> 1000
      [] memory_type = "MB" -> 1000000
      [] memory_type = "GB" -> 1000000000

\* The line print_mem and print_swap share, under its label.
MemLine(sec, label, memory_type, used, total) ==
    <<Line(sec, memory_type,
           <<Span(Bold("blue"), <<label>>), Span(Plain, <<" ">>),
             Span(Plain, FormatF2(used, MemDivisor(memory_type))),
             Span(Plain, <<" ", memory_type, " / ">>),
             Span(Plain, FormatF2(total, MemDivisor(memory_type))),
             Span(Plain, <<" ", memory_type>>)>>)>>

print_mem(cfg, s) == MemLine("memory", "Memory:", cfg.memory_type, s.used_memory, s.total_memory)

print_swap(cfg, s) == MemLine("swap", "Swap:", cfg.memory_type, s.used_swap, s.total_swap)

print_temps(s) ==
    << Line("temperature", "blank", <<>>),
       Line("temperature", "header", <<Span(Bold("red"), <<"Temperature">>)>>),
       Line("temperature", "rule", <<Span(Bold("red"), [i \in 1..20 |-> "-"])>>) >>
    \o [i \in 1..Len(s.components) |->
          Line("temperature", "component",
               <<Span(Bold("blue"), <<s.components[i].label>>), Span(Plain, <<": ">>),
                 Span(Plain, s.components[i].temperature), Span(Plain, <<"DEGREE SIGN", "C">>)>>)]
    \o <<Line("temperature", "blank", <<>>)>>

\* A block one column too narrow.
BlockWidthEven(colors_width) == colors_width * 2

\* The width argument of every block.
BlockWidth(colors_width) == colors_width * 2 + 1

\* format!("{:width$}", width = n): the only argument is the named one, so
\* it is also the value displayed; painted with the colour on itself.
Block(colour, colors_width) ==
    Span(On(colour, colour), PadNumber(BlockWidth(colors_width), BlockWidth(colors_width)))

ColorRow(row, colours, colors_width) ==
    Line("colors", row, [i \in 1..Len(colours) |-> Block(colours[i], colors_width)])

print_colors(cfg) ==
    [i \in 1..cfg.colors_height |->
        ColorRow("row1", <<"red", "green", "blue", "yellow">>, cfg.colors_width)]
    \o [i \in 1..cfg.colors_height |->
        ColorRow("row2", <<"black", "white", "purple", "cyan">>, cfg.colors_width)]

\* The sections with CPU before disks.
PrintLinesCpuFirst(cfg, s, b, user) ==
       (IF cfg.show_hostname THEN IdentitySection(s, user) ELSE <<>>)
    \o (IF cfg.show_os THEN print_os(s) ELSE <<>>)
    \o (IF cfg.show_de THEN print_desktop_environment(b) ELSE <<>>)
    \o (IF cfg.show_uptime THEN print_uptime(cfg, s) ELSE <<>>)
    \o (IF cfg.show_kernel_version THEN print_kernel_ver(s) ELSE <<>>)
    \o (IF cfg.show_cpu THEN print_cpu(cfg, s) ELSE <<>>)
    \o (IF cfg.show_disks THEN print_disks(s) ELSE <<>>)
    \o (IF cfg.show_memory THEN print_mem(cfg, s) ELSE <<>>)
    \o (IF cfg.show_swap THEN print_swap(cfg, s) ELSE <<>>)
    \o (IF cfg.show_temperature THEN print_temps(s) ELSE <<>>)
    \o (IF cfg.show_colors THEN print_colors(cfg) ELSE <<>>)

\* The lines print writes, given the user name get_user returned.
PrintLines(cfg, s, b, user) ==
       (IF cfg.show_hostname THEN IdentitySection(s, user) ELSE <<>>)
    \o (IF cfg.show_os THEN print_os(s) ELSE <<>>)
    \o (IF cfg.show_de THEN print_desktop_environment(b) ELSE <<>>)
    \o (IF cfg.show_uptime THEN print_uptime(cfg, s) ELSE <<>>)
    \o (IF cfg.show_kernel_version THEN print_kernel_ver(s) ELSE <<>>)
    \o (IF cfg.show_disks THEN print_disks(s) ELSE <<>>)
    \o (IF cfg.show_cpu THEN print_cpu(cfg, s) ELSE <<>>)
    \o (IF cfg.show_memory THEN print_mem(cfg, s) ELSE <<>>)
    \o (IF cfg.show_swap THEN print_swap(cfg, s) ELSE <<>>)
    \o (IF cfg.show_temperature THEN print_temps(s) ELSE <<>>)
    \o (IF cfg.show_colors THEN print_colors(cfg) ELSE <<>>)

\* Config::print: get_user runs first in the identity block and panics when
\* the command cannot be run; nothing is written before it.
PrintOutcome(cfg, s, b, user_out) ==
    IF cfg.show_hostname /\ ~IsSome(user_out)
    THEN [panic |-> "get_user", printed |-> <<>>]
    ELSE [panic |-> "none",
          printed |-> PrintLines(cfg, s, b,
                                 IF IsSome(user_out) THEN get_user(Get(user_out)) ELSE <<>>)]

\* ------------------------------------------------------------- environment
\* A complete, valid document.
DocWith(flags, h, w, ut, mt) ==
    [wellFormed |-> TRUE,
     entries |-> [f \in Fields |->
        CASE f \in BoolFields -> TBool(f \in flags)
          [] f = "colors_height" -> TInt(h)
          [] f = "colors_width" -> TInt(w)
          [] f = "uptime_type" -> TStr(ut)
          [] f = "memory_type" -> TStr(mt)]]

Without(doc, f) == [doc EXCEPT !.entries[f] = Absent]
Only(f, v) == [EmptyDoc EXCEPT !.entries[f] = v]
With(doc, f, v) == [doc EXCEPT !.entries[f] = v]

FlagSets ==
    {{}, BoolFields, {"show_cpu", "show_cores"}, BoolFields \ {"show_hostname"}}
    \cup {{f} : f \in BoolFields}

ValidDocs ==
    {default_config}
    \cup {DocWith(F, 1, 1, "Minute", "GB") : F \in FlagSets}
    \cup {DocWith({"show_colors"}, h, w, "Minute", "GB") : h \in 0..MaxHeight, w \in 0..MaxWidth}
    \cup {DocWith({"show_uptime", "show_memory", "show_swap"}, 1, 1, ut, mt) :
            ut \in Time, mt \in MemType}

PartialDocs ==
    {Only("show_os", TBool(TRUE)), Only("show_temperature", TBool(TRUE)),
     Only("colors_height", TInt(1)), EmptyDoc,
     Without(DocWith({}, 0, 0, "Second", "KB"), "show_cores")}
    \cup {Without(default_config, f) : f \in {"show_os", "colors_width", "memory_type"}}

InvalidDocs ==
    {With(default_config, "colors_width", TInt(-1)),
     With(default_config, "uptime_type", TStr("Day")),
     With(default_config, "show_os", TStr("yes")),
     [default_config EXCEPT !.wellFormed = FALSE],
     [EmptyDoc EXCEPT !.wellFormed = FALSE]}

Docs == ValidDocs \cup PartialDocs \cup InvalidDocs

\* The configuration file: absent, present but not openable, openable but
\* not readable as text, or readable with a document as its contents.
Files ==
    {[state |-> st, doc |-> EmptyDoc] : st \in {"absent", "unopenable", "unreadable"}}
    \cup {[state |-> "readable", doc |-> d] : d \in Docs}

TheDisk == [name |-> "sda1", total_space |-> 16106127, available_space |-> 5368709]
TheComponent == [label |-> "coretemp", temperature |-> <<"4", "2", ".", "5">>]

UptimeValues == {59, 3600}

\* What the system provider reports.
Facts ==
    {[host_name |-> hn, long_os_version |-> os, kernel_version |-> kv, uptime |-> up,
      disks |-> [i \in 1..nd |-> TheDisk], cpu_brand |-> "cpu", cpus |-> 12,
      used_memory |-> 1234567, total_memory |-> 2000000,
      used_swap |-> 0, total_swap |-> 1500000,
      components |-> [i \in 1..nc |-> TheComponent]] :
        hn \in {None, Some("host")}, os \in {None, Some("Linux 22.04 Ubuntu")},
        kv \in {None, Some("6.1.0")}, up \in UptimeValues,
        nd \in 0..MaxDisks, nc \in 0..MaxComponents}

Builds ==
    {[target_os |-> t, desktop_session |-> d] :
        t \in {"linux", "macos"}, d \in {None, Some("gnome")}}
    \ {[target_os |-> "macos", desktop_session |-> None]}

\* Standard output of the user lookup command, when it could be run.
UserOutputs == {None, Some(<<"user", "\n">>), Some(<<"user">>)}

\* ------------------------------------------------------------- main
VARIABLES config_dir, file, facts, build, user_out,
          pc, sys, factsCalls, config, out, panic

env == <<config_dir, file, facts, build, user_out>>
vars == <<config_dir, file, facts, build, user_out, pc, sys, factsCalls, config, out, panic>>

\* main with the configuration resolved before the facts are gathered.
MainOrderConfigFirst == <<"Config::new", "System::new_all", "print">>

\* The statements of main, in order.
MainOrder == <<"System::new_all", "Config::new", "print">>

Init ==
    /\ config_dir \in BOOLEAN
    /\ file \in Files
    /\ facts \in Facts
    /\ build \in Builds
    /\ user_out \in UserOutputs
    /\ pc = 1
    /\ sys = None
    /\ factsCalls = 0
    /\ config = None
    /\ out = <<>>
    /\ panic = "none"

At(stmt) == panic = "none" /\ pc <= Len(MainOrder) /\ MainOrder[pc] = stmt

SystemNewAll ==
    /\ At("System::new_all")
    /\ sys' = Some(facts)
    /\ factsCalls' = factsCalls + 1
    /\ pc' = pc + 1
    /\ UNCHANGED <<env, config, out, panic>>

ConfigNew ==
    /\ At("Config::new")
    /\ LET o == ConfigNewOutcome(config_dir, file)
       IN  /\ panic' = o.panic
           /\ config' = o.config
           /\ out' = out \o o.printed
           /\ pc' = IF o.panic = "none" THEN pc + 1 ELSE pc
    /\ UNCHANGED <<env, sys, factsCalls>>

ConfigPrint ==
    /\ At("print")
    /\ LET o == PrintOutcome(Get(config), Get(sys), build, user_out)
       IN  /\ panic' = o.panic
           /\ out' = out \o o.printed
           /\ pc' = IF o.panic = "none" THEN pc + 1 ELSE pc
    /\ UNCHANGED <<env, sys, factsCalls, config>>

Next == SystemNewAll \/ ConfigNew \/ ConfigPrint

Spec == Init /\ [][Next]_vars

Done == panic = "none" /\ pc = Len(MainOrder) + 1

\* ------------------------------------------------------------- properties
ConfigPanics == {"config_dir", "read_to_string", "default_config"}

\* Config::new has run: it returned a Config or panicked.
ConfigNewDone == IsSome(config) \/ panic \in ConfigPanics

\* What Config::new wrote, and what the report sections wrote.
ConfigLines == SelectSeq(out, LAMBDA l : l.sec = "config")
ReportLines == SelectSeq(out, LAMBDA l : l.sec # "config")

\* The default Config, field for field.
CompiledDefault ==
    [show_os |-> TRUE, show_hostname |-> TRUE, show_uptime |-> TRUE,
     show_kernel_version |-> TRUE, show_memory |-> TRUE, show_swap |-> TRUE,
     show_de |-> TRUE, show_colors |-> TRUE, show_cpu |-> TRUE, show_cores |-> TRUE,
     show_disks |-> TRUE, show_temperature |-> FALSE,
     colors_height |-> 3, colors_width |-> 3,
     uptime_type |-> "Minute", memory_type |-> "GB"]

FullyPopulated(c) ==
    /\ \A f \in BoolFields : f \in DOMAIN c
    /\ c.show_os \in BOOLEAN /\ c.show_hostname \in BOOLEAN /\ c.show_uptime \in BOOLEAN
    /\ c.show_kernel_version \in BOOLEAN /\ c.show_memory \in BOOLEAN
    /\ c.show_swap \in BOOLEAN /\ c.show_de \in BOOLEAN /\ c.show_colors \in BOOLEAN
    /\ c.show_cpu \in BOOLEAN /\ c.show_cores \in BOOLEAN /\ c.show_disks \in BOOLEAN
    /\ c.show_temperature \in BOOLEAN
    /\ c.colors_height \in Nat /\ c.colors_width \in Nat
    /\ c.uptime_type \in Time /\ c.memory_type \in MemType

\* C1: provided the configuration directory can be determined, Config::new
\* returns a fully populated Config whatever the state of the configuration
\* file (absent, not openable, not readable as text, malformed, valid): it
\* never panics.
C1_ResolveAlwaysReturns ==
    (config_dir /\ ConfigNewDone) =>
        /\ panic \notin ConfigPanics
        /\ IsSome(config)
        /\ FullyPopulated(Get(config))

\* C2: when the file exists but cannot be opened, or opens but cannot be
\* read as text, Config::new returns the compiled-in default and prints
\* nothing.
C2_AccessFailureSilentDefault ==
    (config_dir /\ file.state \in {"unopenable", "unreadable"} /\ ConfigNewDone) =>
        /\ IsSome(config)
        /\ Get(config) = CompiledDefault
        /\ ConfigLines = <<>>

\* A document that parses as a table, sets every field it sets with the
\* right type, and leaves at least one field out.
IsPartial(doc) ==
    /\ doc.wellFormed
    /\ \E f \in Fields : doc.entries[f].t = "absent"
    /\ \A f \in Fields : doc.entries[f].t # "absent" => EntryOk(f, doc.entries[f])

WarningKinds == {"fallback_notice", "parse_error"}

\* C3: a readable document that sets only a subset of the fields is handled
\* as a malformed one: the warning is printed and the Config returned is the
\* compiled-in default in every field, nothing of the document is merged in.
C3_PartialDocumentRejected ==
    (config_dir /\ file.state = "readable" /\ IsPartial(file.doc) /\ ConfigNewDone) =>
        /\ IsSome(config)
        /\ Get(config) = CompiledDefault
        /\ Len(ConfigLines) = 2
        /\ {ConfigLines[i].kind : i \in 1..2} = WarningKinds

C3_Witness ==
    /\ config_dir /\ file.state = "readable" /\ IsPartial(file.doc)
    /\ file.doc.entries["show_temperature"].t = "bool"
    /\ file.doc.entries["show_temperature"].b
    /\ IsSome(config) /\ Get(config) = CompiledDefault
    /\ Len(ConfigLines) = 2

\* C4: when the configuration path does not exist, Config::new returns the
\* compiled-in default field for field and prints no warning.
C4_AbsentFileGivesDefault ==
    (config_dir /\ file.state = "absent" /\ ConfigNewDone) =>
        /\ IsSome(config)
        /\ Get(config) = CompiledDefault
        /\ ConfigLines = <<>>

C4_Witness ==
    /\ config_dir /\ file.state = "absent"
    /\ IsSome(config) /\ ~Get(config).show_temperature /\ Get(config).colors_width = 3

SectionOrder ==
    <<"identity", "os", "de", "uptime", "kernel", "disks", "cpu", "memory", "swap",
      "temperature", "colors">>

Sections == {SectionOrder[i] : i \in 1..Len(SectionOrder)}

SectionIndex(sec) == CHOOSE i \in 1..Len(SectionOrder) : SectionOrder[i] = sec

SectionFlag(c, sec) ==
    CASE sec = "identity" -> c.show_hostname
      [] sec = "os" -> c.show_os
      [] sec = "de" -> c.show_de
      [] sec = "uptime" -> c.show_uptime
      [] sec = "kernel" -> c.show_kernel_version
      [] sec = "disks" -> c.show_disks
      [] sec = "cpu" -> c.show_cpu
      [] sec = "memory" -> c.show_memory
      [] sec = "swap" -> c.show_swap
      [] sec = "temperature" -> c.show_temperature
      [] sec = "colors" -> c.show_colors

SectionsOf(lines) == {lines[i].sec : i \in 1..Len(lines)}

\* C5: the report holds sections only in the order identity, OS, desktop
\* environment, uptime, kernel, disks, CPU, memory, swap, temperature,
\* colours; a section whose flag is false writes nothing.
C5_SectionsInFixedOrder ==
    /\ \A i \in 1..Len(ReportLines) : ReportLines[i].sec \in Sections
    /\ \A i, j \in 1..Len(ReportLines) :
          i < j => SectionIndex(ReportLines[i].sec) <= SectionIndex(ReportLines[j].sec)
    /\ ReportLines # <<>> =>
          /\ IsSome(config)
          /\ \A sec \in SectionsOf(ReportLines) : SectionFlag(Get(config), sec)

C5_Witness ==
    /\ Done
    /\ Cardinality(SectionsOf(ReportLines)) >= 9
    /\ ~Get(config).show_hostname
    /\ "disks" \in SectionsOf(ReportLines)

\* C6: with show_hostname set and no host name in the snapshot, the identity
\* section writes nothing: no header, no separator rule, no Host: line.
C6_NoHostnameNoIdentityOutput ==
    (Done /\ Get(config).show_hostname /\ ~IsSome(Get(sys).host_name)) =>
        "identity" \notin SectionsOf(ReportLines)

DigitSet == {DigitChars[k] : k \in 1..10}

HasTwoDecimals(text) ==
    /\ Len(text) >= 4
    /\ text[Len(text) - 2] = "."
    /\ \A i \in 1..Len(text) : i # Len(text) - 2 => text[i] \in DigitSet

\* The uptime lines of the report and the number each displays.
UptimeLines == SelectSeq(out, LAMBDA l : l.sec = "uptime")

\* C7: the uptime section prints the converted value with exactly two
\* decimal digits in every unit; an uptime of 3600 is 3600.00 in Second
\* mode, 60.00 in Minute mode and 1.00 in Hour mode.
C7_UptimeTwoDecimals ==
    \A i \in 1..Len(UptimeLines) :
        LET text == UptimeLines[i].spans[3].text
            ut == Get(config).uptime_type
        IN  /\ HasTwoDecimals(text)
            /\ Get(sys).uptime = 3600 =>
                  text = CASE ut = "Second" -> <<"3", "6", "0", "0", ".", "0", "0">>
                           [] ut = "Minute" -> <<"6", "0", ".", "0", "0">>
                           [] ut = "Hour" -> <<"1", ".", "0", "0">>

ColorLines == SelectSeq(out, LAMBDA l : l.sec = "colors")

\* The colours of the two rows; Purple is the terminal's magenta.
Row1Colours == <<"red", "green", "blue", "yellow">>
Row2Colours == <<"black", "white", "purple", "cyan">>

\* h lines of the first row, then h lines of the second, four blocks each,
\* every block painted with one colour as foreground and background.
SwatchLayout(h) ==
    /\ Len(ColorLines) = 2 * h
    /\ \A i \in 1..Len(ColorLines) :
          LET l == ColorLines[i]
              colours == IF i <= h THEN Row1Colours ELSE Row2Colours
          IN  /\ Len(l.spans) = 4
              /\ \A k \in 1..4 : /\ l.spans[k].bg = colours[k]
                                 /\ l.spans[k].fg = l.spans[k].bg

BlockTexts == {ColorLines[i].spans[k].text : i \in 1..Len(ColorLines), k \in 1..4}

\* C8 (as stated): the swatch section writes two colour rows (red, green,
\* blue, yellow; black, white, magenta, cyan), each h times; every line
\* holds 4 blocks, every block is 2*w+1 characters wide and is whitespace
\* only, with foreground equal to background.
C8_BlocksAreWhitespace ==
    (Done /\ Get(config).show_colors) =>
        /\ SwatchLayout(Get(config).colors_height)
        /\ \A t \in BlockTexts :
              /\ Len(t) = 2 * Get(config).colors_width + 1
              /\ \A i \in 1..Len(t) : t[i] = " "

\* C8 (amended): the same layout and width, but a block is not blank: it
\* holds the decimal numeral of its own width 2*w+1, right-aligned after
\* spaces, invisible only because foreground equals background.
C8_BlocksHoldTheirWidth ==
    (Done /\ Get(config).show_colors) =>
        /\ SwatchLayout(Get(config).colors_height)
        /\ \A t \in BlockTexts :
              LET n == 2 * Get(config).colors_width + 1
                  d == ToDigits(n)
              IN  /\ Len(t) = n
                  /\ SubSeq(t, n - Len(d) + 1, n) = d
                  /\ \A i \in 1..(n - Len(d)) : t[i] = " "

C8_Witness ==
    /\ Done /\ Get(config).show_colors
    /\ Get(config).colors_height = 2 /\ Get(config).colors_width = 2
    /\ Len(ColorLines) = 4
    /\ ColorLines[1].spans[1].text = <<" ", " ", " ", " ", "5">>

ParseFails(doc) == ~FromStr(doc).ok

\* C10 (as stated): when the file reads but does not parse, Config::new
\* prints the parse error with its caveat, then the fallback notice, then
\* returns the default.
C10_ErrorThenNotice ==
    (config_dir /\ file.state = "readable" /\ ParseFails(file.doc) /\ ConfigNewDone) =>
        /\ Len(ConfigLines) = 2
        /\ ConfigLines[1].kind = "parse_error"
        /\ ConfigLines[2].kind = "fallback_notice"
        /\ IsSome(config) /\ Get(config) = CompiledDefault

\* C10 (amended): the fallback notice is printed first, the parse error
\* with its caveat second, and the default is returned after both.
C10_NoticeThenError ==
    (config_dir /\ file.state = "readable" /\ ParseFails(file.doc) /\ ConfigNewDone) =>
        /\ Len(ConfigLines) = 2
        /\ ConfigLines[1].kind = "fallback_notice"
        /\ ConfigLines[1].spans[1].text = NOTICE
        /\ ConfigLines[2].kind = "parse_error"
        /\ ConfigLines[2].spans[1].text = <<FromStr(file.doc).err>>
        /\ ConfigLines[2].spans[3].text = CAVEAT
        /\ IsSome(config) /\ Get(config) = CompiledDefault

C10_Witness ==
    /\ config_dir /\ file.state = "readable" /\ ~file.doc.wellFormed
    /\ IsSome(config) /\ Len(ConfigLines) = 2
    /\ ConfigLines[2].spans[1].text = <<"syntax error">>

====
